---- MODULE Spec2Model ----
(***************************************************************************)
(* A model of the ewq math library (quaternions, vectors, axis aligned     *)
(* bounding boxes).  Every library operation is a pure function of its     *)
(* arguments; an action of the model draws the arguments of one call from  *)
(* a bounded set, applies the operation as the source computes it, and     *)
(* records arguments and result in the state.                              *)
(*                                                                         *)
(* Scalars.  The library is generic over F: Float.  A scalar is modelled   *)
(* as an exact extended rational <<n, d>>: d > 0 and gcd(n, d) = 1 for a   *)
(* finite value, <<1, 0>> and <<-1, 0>> for +Inf and -Inf, <<0, 0>> for    *)
(* NaN.  Division by zero, NaN propagation and the unordered comparisons   *)
(* of NaN follow IEEE-754; rounding, overflow and the sign of zero are not *)
(* modelled (every zero divisor the modelled code produces is a sum of     *)
(* squares or a square root, hence +0).                                    *)
(***************************************************************************)
EXTENDS Integers, Sequences, FiniteSets, TLC

VARIABLES
    pc,                 \* "call_<op>" before the call of <op>, "<op>" after it
    qa, qb, va, ta, tb, \* arguments: quaternions, a vector, two angles
    qr, vr,             \* results: a quaternion, a vector
    bsize, bmin, bmax, bpt, bres,   \* generic Aabb: SIZE, min, max, point, result
    amin, amax, apt, ares, aout,    \* Aabb3: min, max, point, result, is_outside
    opa, opb, opc, opt, \* operands of the other calls: three values and a scalar
    out, out2,          \* results of the other calls
    ninv,               \* the number of invert() calls made on the box
    nsteps,             \* the number of steps composed into the quaternion qa
    mat, nset, written, panicked    \* a Mat3x4, the number of set_row and
                        \* set_column calls made on it, the value last written
                        \* to each cell, and whether a call has panicked

vars == <<pc, qa, qb, va, ta, tb, qr, vr, bsize, bmin, bmax, bpt, bres,
          amin, amax, apt, ares, aout, opa, opb, opc, opt, out, out2, ninv,
          nsteps, mat, nset, written, panicked>>

quatArgs == <<qa, qb, va, ta, tb>>

aabbVars == <<bsize, bmin, bmax, bpt, bres>>

aabb3Vars == <<amin, amax, apt, ares, aout>>

operands == <<opa, opb, opc, opt>>

matVars == <<mat, nset, written, panicked>>

otherVars == <<operands, out, out2, ninv, nsteps, matVars>>

(***************************************************************************)
(* Bounds of the model.                                                    *)
(***************************************************************************)
\* the integer arguments of one call have total weight (the sum of the
\* absolute values of all their components) at most MaxW
MaxW == 4

\* unit quaternions are the normalized integer quaternions with components
\* in -MaxU..MaxU whose norm is an integer
MaxU == 1

\* the vectors rotated by unit quaternions and axis rotations have weight <= MaxV
MaxV == 1

\* rotation axes: nonzero integer vectors with components in -MaxAx..MaxAx
\* whose magnitude is an integer
MaxAx == 2

\* angles: k * pi + j * 2 * atan(4/3) with k, j >= 0 and k + j <= MaxAng
MaxAng == 1

\* the generic Aabb is instantiated for every SIZE in 0..MaxSize
MaxSize == 2

\* at most MaxInverts calls of invert() are made on one box
MaxInverts == 3

\* the integer vector and matrix of one product have total weight <= MaxMatW
MaxMatW == 3

\* the const indices given to row, set_row, column, set_column: 0..MaxIndex
MaxIndex == 4

\* at most MaxSets calls of set_row and set_column are made on one matrix
MaxSets == 3

\* the weight of the quaternion and the vector of a rescaled rotation
MaxScaleW == 3

\* numerators (in absolute value) and denominators of the scale factors
MaxK == 2

\* at most MaxSteps product, combine and conjugate steps are composed
MaxSteps == 2

(***************************************************************************)
(* Scalars: Float (f32 / f64).                                             *)
(***************************************************************************)
Abs(n) == IF n < 0 THEN -n ELSE n

Sgn(n) == IF n < 0 THEN -1 ELSE IF n > 0 THEN 1 ELSE 0

RECURSIVE GCD(_, _)
GCD(a, b) == IF b = 0 THEN a ELSE GCD(b, a % b)

\* the scalar n/d in canonical form
Mk(n, d) ==
    IF d = 0 THEN <<Sgn(n), 0>>
    ELSE LET g == GCD(Abs(n), Abs(d))
             s == Sgn(d)
         IN  <<(s * n) \div g, (s * d) \div g>>

FromInt(n) == <<n, 1>>

NaN == <<0, 0>>

FZero == <<0, 1>>

FOne == <<1, 1>>

IsNaN(a) == a = NaN

IsFinite(a) == a[2] # 0

FNeg(a) == <<-a[1], a[2]>>

\* finite values are added over the least common denominator
FAdd(a, b) ==
    IF IsFinite(a) /\ IsFinite(b)
    THEN LET g == GCD(a[2], b[2])
         IN  Mk(a[1] * (b[2] \div g) + b[1] * (a[2] \div g), (a[2] \div g) * b[2])
    ELSE IF IsNaN(a) \/ IsNaN(b) THEN NaN
    ELSE IF ~IsFinite(a) /\ ~IsFinite(b) THEN (IF a = b THEN a ELSE NaN)
    ELSE IF ~IsFinite(a) THEN a ELSE b

FSub(a, b) == FAdd(a, FNeg(b))

\* finite values are reduced crosswise before they are multiplied;
\* Inf * 0 is NaN
FMul(a, b) ==
    IF IsFinite(a) /\ IsFinite(b)
    THEN LET g == GCD(Abs(a[1]), b[2])
             h == GCD(Abs(b[1]), a[2])
         IN  <<(a[1] \div g) * (b[1] \div h), (a[2] \div h) * (b[2] \div g)>>
    ELSE Mk(a[1] * b[1], 0)

\* 1 / b: 1 / 0 is +Inf, 1 / Inf is 0
FRecip(b) ==
    IF IsNaN(b) THEN NaN
    ELSE IF b[1] = 0 THEN <<1, 0>>
    ELSE IF b[2] = 0 THEN FZero
    ELSE Mk(b[2], b[1])

\* x / 0 is +Inf or -Inf for x # 0, and 0 / 0 is NaN
FDiv(a, b) == FMul(a, FRecip(b))

\* PartialOrd::partial_cmp of two floats
FPartialCmp(a, b) ==
    IF IsNaN(a) \/ IsNaN(b) THEN "None"
    ELSE LET l == IF IsFinite(a) /\ IsFinite(b) THEN a[1] * b[2] ELSE
                  IF IsFinite(a) THEN 0 ELSE a[1]
             r == IF IsFinite(a) /\ IsFinite(b) THEN b[1] * a[2] ELSE
                  IF IsFinite(b) THEN 0 ELSE b[1]
         IN  IF l < r THEN "Less" ELSE IF l > r THEN "Greater" ELSE "Equal"

FLe(a, b) == FPartialCmp(a, b) \in {"Less", "Equal"}

FGt(a, b) == FPartialCmp(a, b) = "Greater"

\* PartialEq of two floats: NaN equals nothing
FEq(a, b) == FPartialCmp(a, b) = "Equal"

IsSquare(n) == n >= 0 /\ \E r \in 0..n : r * r = n

ISqrt(n) == CHOOSE r \in 0..n : r * r = n

\* Float::sqrt, defined here where the root is rational
FSqrt(a) ==
    IF IsNaN(a) \/ a[1] < 0 THEN NaN
    ELSE IF ~IsFinite(a) THEN a
    ELSE <<ISqrt(a[1]), ISqrt(a[2])>>

(***************************************************************************)
(* Angles.  The angle <<p, j>> stands for p * (pi / 2) + j * atan(4/3); on *)
(* these angles sin and cos are rational: cos + i sin =                    *)
(* i^p * ((3 + 4i) / 5)^j.                                                 *)
(***************************************************************************)
\* complex product of pairs of scalars
CMul(a, b) ==
    <<FSub(FMul(a[1], b[1]), FMul(a[2], b[2])),
      FAdd(FMul(a[1], b[2]), FMul(a[2], b[1]))>>

RECURSIVE CPow(_, _)
CPow(c, n) == IF n = 0 THEN <<FOne, FZero>> ELSE CMul(c, CPow(c, n - 1))

CisUnit(p) ==
    CASE p % 4 = 0 -> <<FOne, FZero>>
      [] p % 4 = 1 -> <<FZero, FOne>>
      [] p % 4 = 2 -> <<FNeg(FOne), FZero>>
      [] p % 4 = 3 -> <<FZero, FNeg(FOne)>>

Cis(t) ==
    CMul(CisUnit(t[1]),
         IF t[2] >= 0 THEN CPow(<<Mk(3, 5), Mk(4, 5)>>, t[2])
         ELSE CPow(<<Mk(3, 5), Mk(-4, 5)>>, -t[2]))

FCos(t) == Cis(t)[1]

FSin(t) == Cis(t)[2]

\* angle / 2, for the angles whose half is again of the form above
AngHalf(t) == <<t[1] \div 2, t[2] \div 2>>

AngAdd(s, t) == <<s[1] + t[1], s[2] + t[2]>>

\* the content of an operand or result that a call does not use
NoValue == <<>>

(***************************************************************************)
(* Vec3                                                                    *)
(***************************************************************************)
Vec3New(x, y, z) == [x |-> x, y |-> y, z |-> z]

Vec3Zero == Vec3New(FZero, FZero, FZero)

Vec3Add(a, b) == Vec3New(FAdd(a.x, b.x), FAdd(a.y, b.y), FAdd(a.z, b.z))

Vec3Sub(a, b) == Vec3New(FSub(a.x, b.x), FSub(a.y, b.y), FSub(a.z, b.z))

Vec3Mul(a, k) == Vec3New(FMul(a.x, k), FMul(a.y, k), FMul(a.z, k))

Vec3Div(a, k) == Vec3New(FDiv(a.x, k), FDiv(a.y, k), FDiv(a.z, k))

Vec3Neg(a) == Vec3New(FNeg(a.x), FNeg(a.y), FNeg(a.z))

Vec3SqrtMagnitude(a) ==
    FAdd(FAdd(FMul(a.x, a.x), FMul(a.y, a.y)), FMul(a.z, a.z))

Vec3Magnitude(a) == FSqrt(Vec3SqrtMagnitude(a))

Vec3Normalized(a) ==
    LET l == Vec3Magnitude(a)
    IN  Vec3New(FDiv(a.x, l), FDiv(a.y, l), FDiv(a.z, l))

\* #[derive(PartialOrd)]: the lexicographic order on (x, y, z)
Vec3PartialCmp(a, b) ==
    IF FPartialCmp(a.x, b.x) # "Equal" THEN FPartialCmp(a.x, b.x)
    ELSE IF FPartialCmp(a.y, b.y) # "Equal" THEN FPartialCmp(a.y, b.y)
    ELSE FPartialCmp(a.z, b.z)

Vec3Gt(a, b) == Vec3PartialCmp(a, b) = "Greater"

\* a lerp that adds the other vector where it should add the difference
Vec3Lerp_AddsOther(self, other, t) ==
    Vec3Add(self, Vec3Mul(other, FSub(FOne, t)))

\* a lerp in the conventional parametrization, self + (other - self) * t
Vec3Lerp_Conventional(self, other, t) ==
    Vec3Add(self, Vec3Mul(Vec3Sub(other, self), t))

\* *self + (other - *self) * (F::one() - t)
Vec3Lerp(self, other, t) ==
    Vec3Add(self, Vec3Mul(Vec3Sub(other, self), FSub(FOne, t)))

Vec3Dot(self, other) ==
    FAdd(FAdd(FMul(self.x, other.x), FMul(self.y, other.y)), FMul(self.z, other.z))

\* a cross product with the two terms of every component exchanged
Vec3Cross_LeftHanded(self, other) ==
    Vec3New(FSub(FMul(self.z, other.y), FMul(self.y, other.z)),
            FSub(FMul(self.x, other.z), FMul(self.z, other.x)),
            FSub(FMul(self.y, other.x), FMul(self.x, other.y)))

Vec3Cross(self, other) ==
    Vec3New(FSub(FMul(self.y, other.z), FMul(self.z, other.y)),
            FSub(FMul(self.z, other.x), FMul(self.x, other.z)),
            FSub(FMul(self.x, other.y), FMul(self.y, other.x)))

\* self.dot(former.cross(latter))
Vec3Triple(self, former, latter) == Vec3Dot(self, Vec3Cross(former, latter))

\* self.x * self.y * self.z
Vec3CuboidVolume(self) == FMul(FMul(self.x, self.y), self.z)

(***************************************************************************)
(* Vec2                                                                    *)
(***************************************************************************)
Vec2New(x, y) == [x |-> x, y |-> y]

Vec2Add(a, b) == Vec2New(FAdd(a.x, b.x), FAdd(a.y, b.y))

Vec2Sub(a, b) == Vec2New(FSub(a.x, b.x), FSub(a.y, b.y))

Vec2Mul(a, k) == Vec2New(FMul(a.x, k), FMul(a.y, k))

Vec2Lerp(self, other, t) ==
    Vec2Add(self, Vec2Mul(Vec2Sub(other, self), FSub(FOne, t)))

(***************************************************************************)
(* Vec4                                                                    *)
(***************************************************************************)
Vec4New(x, y, z, w) == [x |-> x, y |-> y, z |-> z, w |-> w]

Vec4Add(a, b) ==
    Vec4New(FAdd(a.x, b.x), FAdd(a.y, b.y), FAdd(a.z, b.z), FAdd(a.w, b.w))

Vec4Sub(a, b) ==
    Vec4New(FSub(a.x, b.x), FSub(a.y, b.y), FSub(a.z, b.z), FSub(a.w, b.w))

Vec4Mul(a, k) ==
    Vec4New(FMul(a.x, k), FMul(a.y, k), FMul(a.z, k), FMul(a.w, k))

Vec4Lerp(self, other, t) ==
    Vec4Add(self, Vec4Mul(Vec4Sub(other, self), FSub(FOne, t)))

\* a dot product that leaves out the w components
Vec4Dot_DropsW(self, other) ==
    FAdd(FAdd(FMul(self.x, other.x), FMul(self.y, other.y)), FMul(self.z, other.z))

Vec4Dot(self, other) ==
    FAdd(FAdd(FAdd(FMul(self.x, other.x), FMul(self.y, other.y)),
              FMul(self.z, other.z)),
         FMul(self.w, other.w))

(***************************************************************************)
(* Mat3x4: three rows r0, r1, r2, each a Vec4.                             *)
(***************************************************************************)
Mat3x4New(r0, r1, r2) == [r0 |-> r0, r1 |-> r1, r2 |-> r2]

Mat3x4Identity ==
    [r0 |-> Vec4New(FOne, FZero, FZero, FZero),
     r1 |-> Vec4New(FZero, FOne, FZero, FZero),
     r2 |-> Vec4New(FZero, FZero, FOne, FZero)]

\* the outcome of a call that may panic: the value it returns (for a setter,
\* the matrix it leaves) and whether it panicked
Returned(value) == [value |-> value, panic |-> FALSE]

Panicked(value) == [value |-> value, panic |-> TRUE]

\* row::<I>()
Mat3x4Row(self, I) ==
    CASE I = 0 -> Returned(self.r0)
      [] I = 1 -> Returned(self.r1)
      [] I = 2 -> Returned(self.r2)
      [] OTHER -> Panicked(NoValue)

\* a set_row whose last arm stores the row instead of panicking
Mat3x4SetRow_ClampsIndex(self, I, row) ==
    CASE I = 0 -> Returned([self EXCEPT !.r0 = row])
      [] I = 1 -> Returned([self EXCEPT !.r1 = row])
      [] OTHER -> Returned([self EXCEPT !.r2 = row])

\* set_row::<I>(row): the matrix it leaves
Mat3x4SetRow(self, I, row) ==
    CASE I = 0 -> Returned([self EXCEPT !.r0 = row])
      [] I = 1 -> Returned([self EXCEPT !.r1 = row])
      [] I = 2 -> Returned([self EXCEPT !.r2 = row])
      [] OTHER -> Panicked(self)

\* column::<I>()
Mat3x4Column(self, I) ==
    CASE I = 0 -> Returned(Vec3New(self.r0.x, self.r1.x, self.r2.x))
      [] I = 1 -> Returned(Vec3New(self.r0.y, self.r1.y, self.r2.y))
      [] I = 2 -> Returned(Vec3New(self.r0.z, self.r1.z, self.r2.z))
      [] I = 3 -> Returned(Vec3New(self.r0.w, self.r1.w, self.r2.w))
      [] OTHER -> Panicked(NoValue)

\* set_column::<I>(column): the matrix it leaves
Mat3x4SetColumn(self, I, column) ==
    CASE I = 0 -> Returned([self EXCEPT !.r0.x = column.x,
                                        !.r1.x = column.y,
                                        !.r2.x = column.z])
      [] I = 1 -> Returned([self EXCEPT !.r0.y = column.x,
                                        !.r1.y = column.y,
                                        !.r2.y = column.z])
      [] I = 2 -> Returned([self EXCEPT !.r0.z = column.x,
                                        !.r1.z = column.y,
                                        !.r2.z = column.z])
      [] I = 3 -> Returned([self EXCEPT !.r0.w = column.x,
                                        !.r1.w = column.y,
                                        !.r2.w = column.z])
      [] OTHER -> Panicked(self)

\* Vec4 * Mat3x4
Vec4MulMat3x4(self, rhs) ==
    Vec3New(Vec4Dot(self, rhs.r0), Vec4Dot(self, rhs.r1), Vec4Dot(self, rhs.r2))

(***************************************************************************)
(* Complex.  An operator that works in place is modelled by the value it   *)
(* leaves in the receiver, its assignments applied in the order of the     *)
(* source.                                                                 *)
(***************************************************************************)
ComplexNew(real, imag) == [real |-> real, imag |-> imag]

ComplexAdd(self, rhs) ==
    [real |-> FAdd(self.real, rhs.real), imag |-> FAdd(self.imag, rhs.imag)]

ComplexAddAssign(self, rhs) ==
    LET s1 == [self EXCEPT !.real = FAdd(self.real, rhs.real)]
    IN  [s1 EXCEPT !.imag = FAdd(s1.imag, rhs.imag)]

ComplexSub(self, rhs) ==
    [real |-> FSub(self.real, rhs.real), imag |-> FSub(self.imag, rhs.imag)]

ComplexSubAssign(self, rhs) ==
    LET s1 == [self EXCEPT !.real = FSub(self.real, rhs.real)]
    IN  [s1 EXCEPT !.imag = FSub(s1.imag, rhs.imag)]

\* Complex * F
ComplexMulF(self, rhs) ==
    [real |-> FMul(self.real, rhs), imag |-> FMul(self.imag, rhs)]

\* Complex *= F
ComplexMulAssignF(self, rhs) ==
    LET s1 == [self EXCEPT !.real = FMul(self.real, rhs)]
    IN  [s1 EXCEPT !.imag = FMul(s1.imag, rhs)]

\* Complex * Complex
ComplexMul(self, rhs) ==
    [real |-> FSub(FMul(self.real, rhs.real), FMul(self.imag, rhs.imag)),
     imag |-> FAdd(FMul(self.real, rhs.imag), FMul(self.imag, rhs.real))]

\* Complex *= Complex: the second assignment reads the real part that the
\* first one has stored
ComplexMulAssign(self, rhs) ==
    LET s1 == [self EXCEPT !.real =
                   FSub(FMul(self.real, rhs.real), FMul(self.imag, rhs.imag))]
    IN  [s1 EXCEPT !.imag =
                   FAdd(FMul(s1.real, rhs.imag), FMul(s1.imag, rhs.real))]

\* Complex / F
ComplexDivF(self, rhs) ==
    [real |-> FDiv(self.real, rhs), imag |-> FDiv(self.imag, rhs)]

\* Complex /= F
ComplexDivAssignF(self, rhs) ==
    LET s1 == [self EXCEPT !.real = FDiv(self.real, rhs)]
    IN  [s1 EXCEPT !.imag = FDiv(s1.imag, rhs)]

(***************************************************************************)
(* Quat                                                                    *)
(***************************************************************************)
QuatNew(v, w) == [v |-> v, w |-> w]

QuatNewVector(v) == [v |-> v, w |-> FZero]

QuatZero == [v |-> Vec3Zero, w |-> FZero]

QuatIdentity == [v |-> Vec3Zero, w |-> FOne]

QuatFromParts(x, y, z, w) == [v |-> Vec3New(x, y, z), w |-> w]

QuatMul(q, k) == [v |-> Vec3Mul(q.v, k), w |-> FMul(q.w, k)]

QuatDiv(q, k) == [v |-> Vec3Div(q.v, k), w |-> FDiv(q.w, k)]

\* an axis rotation that does not normalize the axis
NewAxisRotation_NoNormalize(axis, angle) ==
    [v |-> Vec3Mul(axis, FSin(AngHalf(angle))),
     w |-> FCos(AngHalf(angle))]

NewAxisRotation(axis, angle) ==
    [v |-> Vec3Mul(Vec3Normalized(axis), FSin(AngHalf(angle))),
     w |-> FCos(AngHalf(angle))]

\* a conjugate that negates the scalar part too
Conjugate_NegateAll(q) == [v |-> Vec3Neg(q.v), w |-> FNeg(q.w)]

Conjugate(q) == [v |-> Vec3Neg(q.v), w |-> q.w]

SqrtNorm(q) == FAdd(Vec3SqrtMagnitude(q.v), FMul(q.w, q.w))

Norm(q) == FSqrt(SqrtNorm(q))

Normalize(q) == QuatDiv(q, Norm(q))

\* a reciprocal that does not divide by the squared norm
Reciprocal_NoDivide(q) == Conjugate(q)

Reciprocal(q) == QuatDiv(Conjugate(q), SqrtNorm(q))

\* a Hamilton product with one sign of the y component slipped
Product_SignSlip(self, other) ==
    [v |-> Vec3New(
        FSub(FAdd(FAdd(FMul(self.w, other.v.x), FMul(self.v.x, other.w)),
                  FMul(self.v.y, other.v.z)),
             FMul(self.v.z, other.v.y)),
        FAdd(FAdd(FAdd(FMul(self.w, other.v.y), FMul(self.v.x, other.v.z)),
                  FMul(self.v.y, other.w)),
             FMul(self.v.z, other.v.x)),
        FAdd(FSub(FAdd(FMul(self.w, other.v.z), FMul(self.v.x, other.v.y)),
                  FMul(self.v.y, other.v.x)),
             FMul(self.v.z, other.w))),
     w |-> FSub(FSub(FSub(FMul(self.w, other.w), FMul(self.v.x, other.v.x)),
                     FMul(self.v.y, other.v.y)),
                FMul(self.v.z, other.v.z))]

\* a product without the cross product of the vector parts
Product_NoCross(self, other) ==
    [v |-> Vec3New(
        FAdd(FMul(self.w, other.v.x), FMul(self.v.x, other.w)),
        FAdd(FMul(self.w, other.v.y), FMul(self.v.y, other.w)),
        FAdd(FMul(self.w, other.v.z), FMul(self.v.z, other.w))),
     w |-> FSub(FSub(FSub(FMul(self.w, other.w), FMul(self.v.x, other.v.x)),
                     FMul(self.v.y, other.v.y)),
                FMul(self.v.z, other.v.z))]

Product(self, other) ==
    [v |-> Vec3New(
        FSub(FAdd(FAdd(FMul(self.w, other.v.x), FMul(self.v.x, other.w)),
                  FMul(self.v.y, other.v.z)),
             FMul(self.v.z, other.v.y)),
        FAdd(FAdd(FSub(FMul(self.w, other.v.y), FMul(self.v.x, other.v.z)),
                  FMul(self.v.y, other.w)),
             FMul(self.v.z, other.v.x)),
        FAdd(FSub(FAdd(FMul(self.w, other.v.z), FMul(self.v.x, other.v.y)),
                  FMul(self.v.y, other.v.x)),
             FMul(self.v.z, other.w))),
     w |-> FSub(FSub(FSub(FMul(self.w, other.w), FMul(self.v.x, other.v.x)),
                     FMul(self.v.y, other.v.y)),
                FMul(self.v.z, other.v.z))]

\* a combine that multiplies in the order of application
Combine_SelfFirst(self, other) == Product(self, other)

Combine(self, other) == Product(other, self)

\* a rotate that multiplies by the conjugate, not the reciprocal, on the right
Rotate_ByConjugate(self, v) == Product(Product(self, QuatNewVector(v)), Conjugate(self)).v

\* a rotate that multiplies by the quaternion itself on the right
Rotate_NoReciprocal(self, v) == Product(Product(self, QuatNewVector(v)), self).v

Rotate(self, v) == Product(Product(self, QuatNewVector(v)), Reciprocal(self)).v

(***************************************************************************)
(* The generic Vector capability and Aabb<F, V>.  A vector is a sequence   *)
(* of scalars; get(i) reads component i (counted from 0) and SIZE is the   *)
(* constant of the implementation, passed here as n.                       *)
(***************************************************************************)
Get(v, i) == v[i + 1]

\* for i in from..n { if min.get(i) > max.get(i) { return false } } true
RECURSIVE IsRightFrom(_, _, _, _)
IsRightFrom(min, max, i, n) ==
    IF i >= n THEN TRUE
    ELSE IF FGt(Get(min, i), Get(max, i)) THEN FALSE
    ELSE IsRightFrom(min, max, i + 1, n)

\* an is_right whose loop stops one axis early
IsRight_SkipsLastAxis(min, max, n) == IsRightFrom(min, max, 0, n - 1)

IsRight(min, max, n) == IsRightFrom(min, max, 0, n)

\* a box as a value: Aabb { min, max }
AabbNew(min, max) == [min |-> min, max |-> max]

\* a swap written as two assignments, which loses min
AabbInvert_LosesMin(self) == [min |-> self.max, max |-> self.max]

\* invert(): std::mem::swap(&mut self.min, &mut self.max); the box it leaves
AabbInvert(self) == [min |-> self.max, max |-> self.min]

\* inverted(): Self { min: self.max.clone(), max: self.min.clone() }
AabbInverted(self) == [min |-> self.max, max |-> self.min]

RECURSIVE IsInsideFrom(_, _, _, _, _)
IsInsideFrom(min, max, v, i, n) ==
    IF i >= n THEN TRUE
    ELSE IF ~(FLe(Get(min, i), Get(v, i)) /\ FLe(Get(v, i), Get(max, i))) THEN FALSE
    ELSE IsInsideFrom(min, max, v, i + 1, n)

\* an is_inside whose loop stops one axis early
IsInside_SkipsLastAxis(min, max, v, n) == IsInsideFrom(min, max, v, 0, n - 1)

IsInside(min, max, v, n) == IsInsideFrom(min, max, v, 0, n)

(***************************************************************************)
(* Aabb3<F>: the fixed 3D box over Vec3.                                   *)
(***************************************************************************)
Aabb3IsRight(min, max) == Vec3Gt(max, min)

Aabb3IsInside(min, max, vec) == Vec3Gt(min, vec) /\ Vec3Gt(vec, max)

Aabb3IsOutside(min, max, vec) == ~Aabb3IsInside(min, max, vec)

Aabb3New(min, max) == [min |-> min, max |-> max]

\* corners that vary y fastest, then x, then z
Aabb3Corners_YFastest(self) ==
    LET d == Vec3Sub(self.max, self.min)
    IN  <<self.min,
          Vec3Add(self.min, Vec3New(FZero, d.y, FZero)),
          Vec3Add(self.min, Vec3New(d.x, FZero, FZero)),
          Vec3Add(self.min, Vec3New(d.x, d.y, FZero)),
          Vec3Add(self.min, Vec3New(FZero, FZero, d.z)),
          Vec3Add(self.min, Vec3New(FZero, d.y, d.z)),
          Vec3Add(self.min, Vec3New(d.x, FZero, d.z)),
          Vec3Add(self.min, Vec3New(d.x, d.y, d.z))>>

\* corners(): element k of the array is element k + 1 of the sequence
Aabb3Corners(self) ==
    LET d == Vec3Sub(self.max, self.min)
    IN  <<self.min,
          Vec3Add(self.min, Vec3New(d.x, FZero, FZero)),
          Vec3Add(self.min, Vec3New(FZero, d.y, FZero)),
          Vec3Add(self.min, Vec3New(d.x, d.y, FZero)),
          Vec3Add(self.min, Vec3New(FZero, FZero, d.z)),
          Vec3Add(self.min, Vec3New(d.x, FZero, d.z)),
          Vec3Add(self.min, Vec3New(FZero, d.y, d.z)),
          Vec3Add(self.min, Vec3New(d.x, d.y, d.z))>>

\* a volume taken of min - max
Aabb3Volume_MinMinusMax(self) == Vec3CuboidVolume(Vec3Sub(self.min, self.max))

\* (self.max - self.min).cuboid_volume()
Aabb3Volume(self) == Vec3CuboidVolume(Vec3Sub(self.max, self.min))

\* self.min.lerp(self.max, F::one() / (F::one() + F::one()))
Aabb3Center(self) == Vec3Lerp(self.min, self.max, FDiv(FOne, FAdd(FOne, FOne)))

\* invert(): std::mem::swap(&mut self.min, &mut self.max); the box it leaves
Aabb3Invert(self) == [min |-> self.max, max |-> self.min]

\* inverted(): Self { min: self.max, max: self.min }
Aabb3Inverted(self) == [min |-> self.max, max |-> self.min]

\* Vec3 as a Vector: SIZE = 3, get(0) = x, get(1) = y, get(2) = z
Vec3Size == 3

Vec3AsVector(v) == <<v.x, v.y, v.z>>

(***************************************************************************)
(* Arguments of the calls.                                                 *)
(***************************************************************************)
IntVec3(t) == Vec3New(FromInt(t[1]), FromInt(t[2]), FromInt(t[3]))

IntQuat(t) == QuatFromParts(FromInt(t[1]), FromInt(t[2]), FromInt(t[3]), FromInt(t[4]))

Weight3(t) == Abs(t[1]) + Abs(t[2]) + Abs(t[3])

Weight4(t) == Abs(t[1]) + Abs(t[2]) + Abs(t[3]) + Abs(t[4])

\* the integer triples and quadruples of weight at most r, for each r
Tuples3 ==
    [r \in 0..(MaxW + MaxV) |->
        {t \in (-r..r) \X (-r..r) \X (-r..r) : Weight3(t) <= r}]

Tuples4 ==
    [r \in 0..MaxW |->
        {t \in (-r..r) \X (-r..r) \X (-r..r) \X (-r..r) : Weight4(t) <= r}]

\* q.normalize() of the nonzero integer quaternions whose norm is rational
UnitQuats ==
    {Normalize(IntQuat(t)) : t \in
        {t \in (-MaxU..MaxU) \X (-MaxU..MaxU) \X (-MaxU..MaxU) \X (-MaxU..MaxU) :
            /\ t # <<0, 0, 0, 0>>
            /\ IsSquare(t[1] * t[1] + t[2] * t[2] + t[3] * t[3] + t[4] * t[4])}}

Axes ==
    {IntVec3(t) : t \in
        {t \in (-MaxAx..MaxAx) \X (-MaxAx..MaxAx) \X (-MaxAx..MaxAx) :
            /\ t # <<0, 0, 0>>
            /\ IsSquare(t[1] * t[1] + t[2] * t[2] + t[3] * t[3])}}

Angles ==
    {<<2 * t[1], 2 * t[2]>> : t \in
        {t \in (0..MaxAng) \X (0..MaxAng) : t[1] + t[2] <= MaxAng}}

NoAngle == <<0, 0>>

\* box coordinates: an unordered value and two ordered ones
BoxScalars == {NaN, FZero, FOne}

BoxVectors == [1..MaxSize -> BoxScalars]

BoxVec3s == {Vec3New(x, y, z) : x \in BoxScalars, y \in BoxScalars, z \in BoxScalars}

NoVector == [i \in 1..MaxSize |-> FZero]

\* vectors with components in halves: k / 2 for the integers k of a tuple
HalfVec2(t) == Vec2New(Mk(t[1], 2), Mk(t[2], 2))

HalfVec3(t) == Vec3New(Mk(t[1], 2), Mk(t[2], 2), Mk(t[3], 2))

HalfVec4(t) == Vec4New(Mk(t[1], 2), Mk(t[2], 2), Mk(t[3], 2), Mk(t[4], 2))

IntComplex(re, im) == ComplexNew(FromInt(re), FromInt(im))

IntVec4(t) == Vec4New(FromInt(t[1]), FromInt(t[2]), FromInt(t[3]), FromInt(t[4]))

\* the cells (I, J) of a Mat3x4: row I, column J
Cells == (0..2) \X (0..3)

\* the row and the column given to the call of set_row or set_column number
\* n: values that no cell holds yet
FreshRow(n) == IntVec4(<<10 * n + 1, 10 * n + 2, 10 * n + 3, 10 * n + 4>>)

FreshColumn(n) == IntVec3(<<10 * n + 5, 10 * n + 6, 10 * n + 7>>)

\* component J of a Vec4 and component I of a Vec3, counted from 0
Comp4(v, J) == CASE J = 0 -> v.x [] J = 1 -> v.y [] J = 2 -> v.z [] J = 3 -> v.w

Comp3(v, I) == CASE I = 0 -> v.x [] I = 1 -> v.y [] I = 2 -> v.z

\* the values that Mat3x4::new(r0, r1, r2) writes to the cells
CellsOfNew(r0, r1, r2) ==
    [c \in Cells |-> Comp4(CASE c[1] = 0 -> r0 [] c[1] = 1 -> r1 [] c[1] = 2 -> r2,
                           c[2])]

\* the interpolation parameters: the two ends, the middle and a quarter
\* the unit quaternions a step composes with: k, (1 + i + j + k) / 2,
\* (2i + 2j + k) / 3 and (3j + 4) / 5
StepUnits ==
    {Normalize(IntQuat(t)) :
        t \in {<<0, 0, 1, 0>>, <<1, 1, 1, 1>>, <<2, 2, 1, 0>>, <<0, 3, 0, 4>>}}

\* the scalars k of q * k: zero, integers and fractions of either sign
ScaleFactors == {Mk(n, d) : n \in -MaxK..MaxK, d \in 1..MaxK}

LerpParams == {FZero, FOne, Mk(1, 2), Mk(1, 4)}

\* the box of the documentation tests: min = (1, 1, 1), max = (2, 2, 2)
DocBox == Aabb3New(IntVec3(<<1, 1, 1>>), IntVec3(<<2, 2, 2>>))

(***************************************************************************)
(* Initial states: the arguments of one call, no result yet.               *)
(***************************************************************************)
NoQuatCall ==
    /\ qa = QuatZero
    /\ qb = QuatZero
    /\ va = Vec3Zero
    /\ ta = NoAngle
    /\ tb = NoAngle
    /\ qr = QuatZero
    /\ vr = Vec3Zero

NoAabbCall ==
    /\ bsize = 0
    /\ bmin = NoVector
    /\ bmax = NoVector
    /\ bpt = NoVector
    /\ bres = FALSE

NoAabb3Call ==
    /\ amin = Vec3Zero
    /\ amax = Vec3Zero
    /\ apt = Vec3Zero
    /\ ares = FALSE
    /\ aout = FALSE

NoResult == qr = QuatZero /\ vr = Vec3Zero

NoOperands == opa = NoValue /\ opb = NoValue /\ opc = NoValue /\ opt = NoValue

NoOutput == out = NoValue /\ out2 = NoValue

NoMatCall == mat = NoValue /\ nset = 0 /\ written = NoValue /\ panicked = FALSE

NoOtherCall == NoOperands /\ NoOutput /\ ninv = 0 /\ nsteps = 0 /\ NoMatCall

\* two quaternions and a vector
InitCombine ==
    /\ pc = "call_combine"
    /\ \E a \in Tuples4[MaxW] :
       \E b \in Tuples4[MaxW - Weight4(a)] :
       \E v \in Tuples3[MaxW - Weight4(a) - Weight4(b)] :
           qa = IntQuat(a) /\ qb = IntQuat(b) /\ va = IntVec3(v)
    /\ ta = NoAngle /\ tb = NoAngle
    /\ NoResult /\ NoAabbCall /\ NoAabb3Call /\ NoOtherCall

\* two quaternions
InitProduct ==
    /\ pc = "call_product"
    /\ \E a \in Tuples4[MaxW] :
       \E b \in Tuples4[MaxW - Weight4(a)] :
           qa = IntQuat(a) /\ qb = IntQuat(b)
    /\ va = Vec3Zero /\ ta = NoAngle /\ tb = NoAngle
    /\ NoResult /\ NoAabbCall /\ NoAabb3Call /\ NoOtherCall

\* a quaternion, integer or unit, and a vector
QuatAndVector ==
    \/ \E q \in Tuples4[MaxW] :
       \E v \in Tuples3[MaxW - Weight4(q)] :
           qa = IntQuat(q) /\ va = IntVec3(v)
    \/ \E q \in UnitQuats :
       \E v \in Tuples3[MaxV] :
           qa = q /\ va = IntVec3(v)

InitRotate ==
    /\ pc \in {"call_rotate", "call_roundtrip"}
    /\ QuatAndVector
    /\ qb = QuatZero /\ ta = NoAngle /\ tb = NoAngle
    /\ NoResult /\ NoAabbCall /\ NoAabb3Call /\ NoOtherCall

\* a quaternion, integer or unit
InitReciprocal ==
    /\ pc = "call_reciprocal"
    /\ qa \in {IntQuat(q) : q \in Tuples4[MaxW]} \cup UnitQuats
    /\ qb = QuatZero /\ va = Vec3Zero /\ ta = NoAngle /\ tb = NoAngle
    /\ NoResult /\ NoAabbCall /\ NoAabb3Call /\ NoOtherCall

\* a quaternion, a scalar (held in opt) and a vector
InitScale ==
    /\ pc = "call_scaled_rotate"
    /\ \E q \in Tuples4[MaxScaleW] :
       \E v \in Tuples3[MaxScaleW - Weight4(q)] :
           qa = IntQuat(q) /\ va = IntVec3(v)
    /\ opt \in ScaleFactors
    /\ qb = QuatZero /\ ta = NoAngle /\ tb = NoAngle
    /\ opa = NoValue /\ opb = NoValue /\ opc = NoValue
    /\ NoResult /\ NoAabbCall /\ NoAabb3Call
    /\ NoOutput /\ ninv = 0 /\ nsteps = 0 /\ NoMatCall

\* two quaternions whose product is taken, or a unit quaternion (held in
\* qa) from which a sequence of steps starts
InitNorm ==
    /\ \/ /\ pc = "call_norm_product"
          /\ \E a \in Tuples4[MaxW] :
             \E b \in Tuples4[MaxW - Weight4(a)] :
                 qa = IntQuat(a) /\ qb = IntQuat(b)
       \/ /\ pc = "unit"
          /\ qa \in UnitQuats
          /\ qb = QuatZero
    /\ va = Vec3Zero /\ ta = NoAngle /\ tb = NoAngle
    /\ NoResult /\ NoAabbCall /\ NoAabb3Call /\ NoOtherCall

\* an axis (held in qa as a pure quaternion), two angles and a vector
InitAxis ==
    /\ pc = "call_axiscompose"
    /\ qa \in {QuatNewVector(x) : x \in Axes}
    /\ ta \in Angles
    /\ tb \in Angles
    /\ va \in {IntVec3(v) : v \in Tuples3[MaxV]}
    /\ qb = QuatZero
    /\ NoResult /\ NoAabbCall /\ NoAabb3Call /\ NoOtherCall

\* a generic box of some SIZE, and a point for is_inside
InitAabb ==
    /\ bsize \in 0..MaxSize
    /\ bmin \in BoxVectors
    /\ bmax \in BoxVectors
    /\ \/ pc = "call_is_right" /\ bpt = NoVector
       \/ pc = "call_is_inside" /\ bpt \in BoxVectors
    /\ bres = FALSE
    /\ NoQuatCall /\ NoAabb3Call /\ NoOtherCall

\* a fixed 3D box, and a point for is_inside
InitAabb3 ==
    /\ amin \in BoxVec3s
    /\ amax \in BoxVec3s
    /\ \/ pc = "call3_is_right" /\ apt = Vec3Zero
       \/ pc = "call3_is_inside" /\ apt \in BoxVec3s
    /\ ares = FALSE
    /\ aout = FALSE
    /\ NoQuatCall /\ NoAabbCall /\ NoOtherCall

\* a generic box of some SIZE or a fixed 3D box, kept in opa as constructed
InitInvert ==
    /\ \/ /\ pc = "box"
          /\ bsize \in 0..MaxSize
          /\ bmin \in BoxVectors
          /\ bmax \in BoxVectors
          /\ opa = AabbNew(bmin, bmax)
          /\ NoAabb3Call
       \/ /\ pc = "box3"
          /\ amin \in BoxVec3s
          /\ amax \in BoxVec3s
          /\ opa = Aabb3New(amin, amax)
          /\ apt = Vec3Zero /\ ares = FALSE /\ aout = FALSE
          /\ bsize = 0 /\ bmin = NoVector /\ bmax = NoVector
    /\ bpt = NoVector /\ bres = FALSE
    /\ opb = NoValue /\ opc = NoValue /\ opt = NoValue
    /\ NoOutput /\ ninv = 0 /\ nsteps = 0 /\ NoMatCall
    /\ NoQuatCall

\* two vectors of dimension 2, 3 or 4 and a parameter, or a fixed 3D box
InitLerp ==
    /\ \/ /\ pc = "call_lerp2"
          /\ \E t \in Tuples4[MaxW] :
                 opa = HalfVec2(<<t[1], t[2]>>) /\ opb = HalfVec2(<<t[3], t[4]>>)
          /\ opt \in LerpParams
          /\ NoAabb3Call
       \/ /\ pc = "call_lerp3"
          /\ \E a \in Tuples3[MaxW] :
             \E b \in Tuples3[MaxW - Weight3(a)] :
                 opa = HalfVec3(a) /\ opb = HalfVec3(b)
          /\ opt \in LerpParams
          /\ NoAabb3Call
       \/ /\ pc = "call_lerp4"
          /\ \E a \in Tuples4[MaxW] :
             \E b \in Tuples4[MaxW - Weight4(a)] :
                 opa = HalfVec4(a) /\ opb = HalfVec4(b)
          /\ opt \in LerpParams
          /\ NoAabb3Call
       \/ /\ pc = "call_center"
          /\ \/ \E a \in Tuples3[MaxW] :
                \E b \in Tuples3[MaxW - Weight3(a)] :
                    amin = HalfVec3(a) /\ amax = HalfVec3(b)
             \/ amin = DocBox.min /\ amax = DocBox.max
          /\ apt = Vec3Zero /\ ares = FALSE /\ aout = FALSE
          /\ opa = NoValue /\ opb = NoValue /\ opt = NoValue
    /\ opc = NoValue
    /\ NoOutput /\ ninv = 0 /\ nsteps = 0 /\ NoMatCall
    /\ NoQuatCall /\ NoAabbCall

\* a fixed 3D box with finite corners
InitShape ==
    /\ pc \in {"call_corners", "call_volume"}
    /\ \/ \E a \in Tuples3[MaxW] :
          \E b \in Tuples3[MaxW - Weight3(a)] :
              amin = HalfVec3(a) /\ amax = HalfVec3(b)
       \/ amin = DocBox.min /\ amax = DocBox.max
    /\ apt = Vec3Zero /\ ares = FALSE /\ aout = FALSE
    /\ NoQuatCall /\ NoAabbCall /\ NoOtherCall

\* a complex number and a second operand, complex or scalar
InitComplex ==
    /\ \/ /\ pc \in {"call_cadd", "call_csub", "call_cmul"}
          /\ \E t \in Tuples4[MaxW] :
                 opa = IntComplex(t[1], t[2]) /\ opb = IntComplex(t[3], t[4])
          /\ opt = NoValue
       \/ /\ pc \in {"call_cmulf", "call_cdivf"}
          /\ \E t \in Tuples3[MaxW] :
                 opa = IntComplex(t[1], t[2]) /\ opt = FromInt(t[3])
          /\ opb = NoValue
    /\ opc = NoValue
    /\ NoOutput /\ ninv = 0 /\ nsteps = 0 /\ NoMatCall
    /\ NoQuatCall /\ NoAabbCall /\ NoAabb3Call

\* two 3D vectors for cross, three for triple
InitCross ==
    /\ \/ /\ pc = "call_cross"
          /\ \E a \in Tuples3[MaxW] :
             \E b \in Tuples3[MaxW - Weight3(a)] :
                 opa = IntVec3(a) /\ opb = IntVec3(b)
          /\ opc = NoValue
       \/ /\ pc = "call_triple"
          /\ \E a \in Tuples3[MaxW] :
             \E b \in Tuples3[MaxW - Weight3(a)] :
             \E c \in Tuples3[MaxW - Weight3(a) - Weight3(b)] :
                 opa = IntVec3(a) /\ opb = IntVec3(b) /\ opc = IntVec3(c)
    /\ opt = NoValue
    /\ NoOutput /\ ninv = 0 /\ nsteps = 0 /\ NoMatCall
    /\ NoQuatCall /\ NoAabbCall /\ NoAabb3Call

\* a Vec4 and a matrix: three integer rows, or the identity
InitVecMat ==
    /\ pc = "call_vecmat"
    /\ \/ \E v \in Tuples4[MaxMatW] :
          \E a \in Tuples4[MaxMatW - Weight4(v)] :
          \E b \in Tuples4[MaxMatW - Weight4(v) - Weight4(a)] :
          \E c \in Tuples4[MaxMatW - Weight4(v) - Weight4(a) - Weight4(b)] :
              /\ opa = IntVec4(v)
              /\ mat = Mat3x4New(IntVec4(a), IntVec4(b), IntVec4(c))
       \/ \E v \in Tuples4[MaxMatW] :
              opa = IntVec4(v) /\ mat = Mat3x4Identity
    /\ opb = NoValue /\ opc = NoValue /\ opt = NoValue
    /\ NoOutput /\ ninv = 0 /\ nsteps = 0
    /\ nset = 0 /\ written = NoValue /\ panicked = FALSE
    /\ NoQuatCall /\ NoAabbCall /\ NoAabb3Call

\* a matrix: the identity, or Mat3x4::new of three rows
InitMat ==
    /\ pc = "mat"
    /\ \/ /\ mat = Mat3x4Identity
          /\ written = CellsOfNew(Mat3x4Identity.r0, Mat3x4Identity.r1,
                                  Mat3x4Identity.r2)
       \/ /\ mat = Mat3x4New(FreshRow(-1), FreshRow(-2), FreshRow(-3))
          /\ written = CellsOfNew(FreshRow(-1), FreshRow(-2), FreshRow(-3))
    /\ nset = 0
    /\ panicked = FALSE
    /\ NoOperands /\ NoOutput /\ ninv = 0 /\ nsteps = 0
    /\ NoQuatCall /\ NoAabbCall /\ NoAabb3Call

(***************************************************************************)
(* The calls.                                                              *)
(***************************************************************************)
\* a.combine(b), and the rotation of v by the result
DoCombine ==
    /\ pc = "call_combine"
    /\ pc' = "combine"
    /\ LET c == Combine(qa, qb)
       IN  qr' = c /\ vr' = Rotate(c, va)
    /\ UNCHANGED <<quatArgs, aabbVars, aabb3Vars, otherVars>>

\* a.product(b)
DoProduct ==
    /\ pc = "call_product"
    /\ pc' = "product"
    /\ qr' = Product(qa, qb)
    /\ UNCHANGED <<vr, quatArgs, aabbVars, aabb3Vars, otherVars>>

\* q.rotate(v)
DoRotate ==
    /\ pc = "call_rotate"
    /\ pc' = "rotate"
    /\ vr' = Rotate(qa, va)
    /\ UNCHANGED <<qr, quatArgs, aabbVars, aabb3Vars, otherVars>>

\* q.rotate(v) and (q * k).rotate(v)
DoScaledRotate ==
    /\ pc = "call_scaled_rotate"
    /\ pc' = "scaled_rotate"
    /\ out' = Rotate(qa, va)
    /\ qr' = QuatMul(qa, opt)
    /\ vr' = Rotate(QuatMul(qa, opt), va)
    /\ UNCHANGED <<out2, operands, ninv, nsteps, quatArgs, aabbVars, aabb3Vars, matVars>>

\* a.product(b) and its sqrt_norm(); a.product(identity) and
\* identity.product(a)
DoNormProduct ==
    /\ pc = "call_norm_product"
    /\ pc' = "norm_product"
    /\ qr' = Product(qa, qb)
    /\ out' = SqrtNorm(Product(qa, qb))
    /\ out2' = <<Product(qa, QuatIdentity), Product(QuatIdentity, qa)>>
    /\ UNCHANGED <<vr, operands, ninv, nsteps, quatArgs, aabbVars, aabb3Vars, matVars>>

StepPcs == {"unit", "step_product", "step_combine", "step_conjugate"}

\* q = q.product(u) for a unit quaternion u
DoStepProduct ==
    /\ pc \in StepPcs
    /\ nsteps < MaxSteps
    /\ pc' = "step_product"
    /\ \E u \in StepUnits :
           /\ qb' = u
           /\ qa' = Product(qa, u)
    /\ nsteps' = nsteps + 1
    /\ UNCHANGED <<va, ta, tb, qr, vr, operands, out, out2, ninv, aabbVars, aabb3Vars,
                   matVars>>

\* q = q.combine(u) for a unit quaternion u
DoStepCombine ==
    /\ pc \in StepPcs
    /\ nsteps < MaxSteps
    /\ pc' = "step_combine"
    /\ \E u \in StepUnits :
           /\ qb' = u
           /\ qa' = Combine(qa, u)
    /\ nsteps' = nsteps + 1
    /\ UNCHANGED <<va, ta, tb, qr, vr, operands, out, out2, ninv, aabbVars, aabb3Vars,
                   matVars>>

\* q = q.conjugate()
DoStepConjugate ==
    /\ pc \in StepPcs
    /\ nsteps < MaxSteps
    /\ pc' = "step_conjugate"
    /\ qa' = Conjugate(qa)
    /\ nsteps' = nsteps + 1
    /\ UNCHANGED <<qb, va, ta, tb, qr, vr, operands, out, out2, ninv, aabbVars, aabb3Vars,
                   matVars>>

\* q.rotate(q.conjugate().rotate(v))
DoRoundTrip ==
    /\ pc = "call_roundtrip"
    /\ pc' = "roundtrip"
    /\ qr' = Conjugate(qa)
    /\ vr' = Rotate(qa, Rotate(Conjugate(qa), va))
    /\ UNCHANGED <<quatArgs, aabbVars, aabb3Vars, otherVars>>

\* q.reciprocal()
DoReciprocal ==
    /\ pc = "call_reciprocal"
    /\ pc' = "reciprocal"
    /\ qr' = Reciprocal(qa)
    /\ UNCHANGED <<vr, quatArgs, aabbVars, aabb3Vars, otherVars>>

\* Quat::new_axis_rotation(axis, t1).combine(Quat::new_axis_rotation(axis, t2)),
\* and the rotation of v by the result
DoAxisCompose ==
    /\ pc = "call_axiscompose"
    /\ pc' = "axiscompose"
    /\ LET c == Combine(NewAxisRotation(qa.v, ta), NewAxisRotation(qa.v, tb))
       IN  qr' = c /\ vr' = Rotate(c, va)
    /\ UNCHANGED <<quatArgs, aabbVars, aabb3Vars, otherVars>>

\* Aabb::new(min, max).is_right()
DoIsRight ==
    /\ pc = "call_is_right"
    /\ pc' = "is_right"
    /\ bres' = IsRight(bmin, bmax, bsize)
    /\ UNCHANGED <<bsize, bmin, bmax, bpt, quatArgs, qr, vr, aabb3Vars, otherVars>>

\* Aabb::new(min, max).is_inside(p)
DoIsInside ==
    /\ pc = "call_is_inside"
    /\ pc' = "is_inside"
    /\ bres' = IsInside(bmin, bmax, bpt, bsize)
    /\ UNCHANGED <<bsize, bmin, bmax, bpt, quatArgs, qr, vr, aabb3Vars, otherVars>>

\* Aabb3::new(min, max).is_right()
DoIsRight3 ==
    /\ pc = "call3_is_right"
    /\ pc' = "is_right3"
    /\ ares' = Aabb3IsRight(amin, amax)
    /\ UNCHANGED <<aout, amin, amax, apt, quatArgs, qr, vr, aabbVars, otherVars>>

\* Aabb3::new(min, max).is_inside(p) and .is_outside(p)
DoIsInside3 ==
    /\ pc = "call3_is_inside"
    /\ pc' = "is_inside3"
    /\ ares' = Aabb3IsInside(amin, amax, apt)
    /\ aout' = Aabb3IsOutside(amin, amax, apt)
    /\ UNCHANGED <<amin, amax, apt, quatArgs, qr, vr, aabbVars, otherVars>>

\* b.invert() on the generic box b = (bmin, bmax), then b.is_right()
DoInvert ==
    /\ pc \in {"box", "invert", "inverted"}
    /\ ninv < MaxInverts
    /\ pc' = "invert"
    /\ LET b == AabbInvert(AabbNew(bmin, bmax))
       IN  /\ bmin' = b.min
           /\ bmax' = b.max
           /\ bres' = IsRight(b.min, b.max, bsize)
    /\ ninv' = ninv + 1
    /\ UNCHANGED <<bsize, bpt, quatArgs, qr, vr, aabb3Vars, operands, out, out2, nsteps,
                   matVars>>

\* c = b.inverted() of the generic box b, then c.is_right() and c.inverted()
DoInverted ==
    /\ pc \in {"box", "invert", "inverted"}
    /\ pc' = "inverted"
    /\ LET c == AabbInverted(AabbNew(bmin, bmax))
       IN  /\ out' = c
           /\ opc' = IsRight(c.min, c.max, bsize)
           /\ out2' = AabbInverted(c)
    /\ UNCHANGED <<opa, opb, opt, ninv, nsteps, quatArgs, qr, vr, aabbVars, aabb3Vars, matVars>>

\* b.invert() on the fixed 3D box b = (amin, amax), then b.is_right()
DoInvert3 ==
    /\ pc \in {"box3", "invert3", "inverted3"}
    /\ ninv < MaxInverts
    /\ pc' = "invert3"
    /\ LET b == Aabb3Invert(Aabb3New(amin, amax))
       IN  /\ amin' = b.min
           /\ amax' = b.max
           /\ ares' = Aabb3IsRight(b.min, b.max)
    /\ ninv' = ninv + 1
    /\ UNCHANGED <<apt, aout, quatArgs, qr, vr, aabbVars, operands, out, out2, nsteps,
                   matVars>>

\* c = b.inverted() of the fixed 3D box b, then c.is_right() and c.inverted()
DoInverted3 ==
    /\ pc \in {"box3", "invert3", "inverted3"}
    /\ pc' = "inverted3"
    /\ LET c == Aabb3Inverted(Aabb3New(amin, amax))
       IN  /\ out' = c
           /\ opc' = Aabb3IsRight(c.min, c.max)
           /\ out2' = Aabb3Inverted(c)
    /\ UNCHANGED <<opa, opb, opt, ninv, nsteps, quatArgs, qr, vr, aabbVars, aabb3Vars, matVars>>

\* a.lerp(b, t) and b.lerp(a, t) on Vec2
DoLerp2 ==
    /\ pc = "call_lerp2"
    /\ pc' = "lerp2"
    /\ out' = Vec2Lerp(opa, opb, opt)
    /\ out2' = Vec2Lerp(opb, opa, opt)
    /\ UNCHANGED <<operands, ninv, nsteps, quatArgs, qr, vr, aabbVars, aabb3Vars, matVars>>

\* a.lerp(b, t) and b.lerp(a, t) on Vec3
DoLerp3 ==
    /\ pc = "call_lerp3"
    /\ pc' = "lerp3"
    /\ out' = Vec3Lerp(opa, opb, opt)
    /\ out2' = Vec3Lerp(opb, opa, opt)
    /\ UNCHANGED <<operands, ninv, nsteps, quatArgs, qr, vr, aabbVars, aabb3Vars, matVars>>

\* a.lerp(b, t) and b.lerp(a, t) on Vec4
DoLerp4 ==
    /\ pc = "call_lerp4"
    /\ pc' = "lerp4"
    /\ out' = Vec4Lerp(opa, opb, opt)
    /\ out2' = Vec4Lerp(opb, opa, opt)
    /\ UNCHANGED <<operands, ninv, nsteps, quatArgs, qr, vr, aabbVars, aabb3Vars, matVars>>

\* b.center() and b.inverted().center() of the fixed 3D box b = (amin, amax)
DoCenter ==
    /\ pc = "call_center"
    /\ pc' = "center"
    /\ out' = Aabb3Center(Aabb3New(amin, amax))
    /\ out2' = Aabb3Center(Aabb3Inverted(Aabb3New(amin, amax)))
    /\ UNCHANGED <<operands, ninv, nsteps, quatArgs, qr, vr, aabbVars, aabb3Vars, matVars>>

\* b.corners() of the fixed 3D box b = (amin, amax)
DoCorners ==
    /\ pc = "call_corners"
    /\ pc' = "corners"
    /\ out' = Aabb3Corners(Aabb3New(amin, amax))
    /\ UNCHANGED <<out2, operands, ninv, nsteps, quatArgs, qr, vr, aabbVars, aabb3Vars, matVars>>

\* b.volume() and b.inverted().volume() of the fixed 3D box b = (amin, amax)
DoVolume ==
    /\ pc = "call_volume"
    /\ pc' = "volume"
    /\ out' = Aabb3Volume(Aabb3New(amin, amax))
    /\ out2' = Aabb3Volume(Aabb3Inverted(Aabb3New(amin, amax)))
    /\ UNCHANGED <<operands, ninv, nsteps, quatArgs, qr, vr, aabbVars, aabb3Vars, matVars>>

\* a + b, and the receiver after a += b
DoComplexAdd ==
    /\ pc = "call_cadd"
    /\ pc' = "cadd"
    /\ out' = ComplexAdd(opa, opb)
    /\ out2' = ComplexAddAssign(opa, opb)
    /\ UNCHANGED <<operands, ninv, nsteps, quatArgs, qr, vr, aabbVars, aabb3Vars, matVars>>

\* a - b, and the receiver after a -= b
DoComplexSub ==
    /\ pc = "call_csub"
    /\ pc' = "csub"
    /\ out' = ComplexSub(opa, opb)
    /\ out2' = ComplexSubAssign(opa, opb)
    /\ UNCHANGED <<operands, ninv, nsteps, quatArgs, qr, vr, aabbVars, aabb3Vars, matVars>>

\* a * b, and the receiver after a *= b
DoComplexMul ==
    /\ pc = "call_cmul"
    /\ pc' = "cmul"
    /\ out' = ComplexMul(opa, opb)
    /\ out2' = ComplexMulAssign(opa, opb)
    /\ UNCHANGED <<operands, ninv, nsteps, quatArgs, qr, vr, aabbVars, aabb3Vars, matVars>>

\* a * k for a scalar k, and the receiver after a *= k
DoComplexMulF ==
    /\ pc = "call_cmulf"
    /\ pc' = "cmulf"
    /\ out' = ComplexMulF(opa, opt)
    /\ out2' = ComplexMulAssignF(opa, opt)
    /\ UNCHANGED <<operands, ninv, nsteps, quatArgs, qr, vr, aabbVars, aabb3Vars, matVars>>

\* a / k for a scalar k, and the receiver after a /= k
DoComplexDivF ==
    /\ pc = "call_cdivf"
    /\ pc' = "cdivf"
    /\ out' = ComplexDivF(opa, opt)
    /\ out2' = ComplexDivAssignF(opa, opt)
    /\ UNCHANGED <<operands, ninv, nsteps, quatArgs, qr, vr, aabbVars, aabb3Vars, matVars>>

\* a.cross(b)
DoCross ==
    /\ pc = "call_cross"
    /\ pc' = "cross"
    /\ out' = Vec3Cross(opa, opb)
    /\ UNCHANGED <<out2, operands, ninv, nsteps, quatArgs, qr, vr, aabbVars, aabb3Vars, matVars>>

\* a.triple(b, c)
DoTriple ==
    /\ pc = "call_triple"
    /\ pc' = "triple"
    /\ out' = Vec3Triple(opa, opb, opc)
    /\ UNCHANGED <<out2, operands, ninv, nsteps, quatArgs, qr, vr, aabbVars, aabb3Vars, matVars>>

\* v * m
DoVecMat ==
    /\ pc = "call_vecmat"
    /\ pc' = "vecmat"
    /\ out' = Vec4MulMat3x4(opa, mat)
    /\ UNCHANGED <<out2, operands, ninv, nsteps, quatArgs, qr, vr, aabbVars, aabb3Vars, matVars>>

\* the pc values of a program that holds a matrix
MatPcs == {"mat", "row", "column", "set_row", "set_column"}

\* m.row::<I>(): the index is kept in opt, the row in out; a panic ends the
\* program
DoRow ==
    /\ pc \in MatPcs /\ ~panicked
    /\ pc' = "row"
    /\ \E I \in 0..MaxIndex :
           LET r == Mat3x4Row(mat, I)
           IN  /\ opt' = I
               /\ out' = r.value
               /\ panicked' = r.panic
    /\ opa' = NoValue
    /\ UNCHANGED <<mat, nset, written, opb, opc, out2, ninv, nsteps, quatArgs, qr, vr,
                   aabbVars, aabb3Vars>>

\* m.column::<I>()
DoColumn ==
    /\ pc \in MatPcs /\ ~panicked
    /\ pc' = "column"
    /\ \E I \in 0..MaxIndex :
           LET r == Mat3x4Column(mat, I)
           IN  /\ opt' = I
               /\ out' = r.value
               /\ panicked' = r.panic
    /\ opa' = NoValue
    /\ UNCHANGED <<mat, nset, written, opb, opc, out2, ninv, nsteps, quatArgs, qr, vr,
                   aabbVars, aabb3Vars>>

\* m.set_row::<I>(row): the index is kept in opt, the row in opa; written
\* records the values given for the cells of row I unless the call panics
DoSetRow ==
    /\ pc \in MatPcs /\ ~panicked
    /\ nset < MaxSets
    /\ pc' = "set_row"
    /\ opa' = FreshRow(nset)
    /\ \E I \in 0..MaxIndex :
           LET r == Mat3x4SetRow(mat, I, FreshRow(nset))
           IN  /\ opt' = I
               /\ mat' = r.value
               /\ panicked' = r.panic
               /\ written' = IF I > 2 THEN written
                              ELSE [c \in Cells |->
                                       IF c[1] = I THEN Comp4(FreshRow(nset), c[2])
                                       ELSE written[c]]
    /\ nset' = nset + 1
    /\ UNCHANGED <<opb, opc, out, out2, ninv, nsteps, quatArgs, qr, vr, aabbVars, aabb3Vars>>

\* m.set_column::<I>(column)
DoSetColumn ==
    /\ pc \in MatPcs /\ ~panicked
    /\ nset < MaxSets
    /\ pc' = "set_column"
    /\ opa' = FreshColumn(nset)
    /\ \E I \in 0..MaxIndex :
           LET r == Mat3x4SetColumn(mat, I, FreshColumn(nset))
           IN  /\ opt' = I
               /\ mat' = r.value
               /\ panicked' = r.panic
               /\ written' = IF I > 3 THEN written
                              ELSE [c \in Cells |->
                                       IF c[2] = I THEN Comp3(FreshColumn(nset), c[1])
                                       ELSE written[c]]
    /\ nset' = nset + 1
    /\ UNCHANGED <<opb, opc, out, out2, ninv, nsteps, quatArgs, qr, vr, aabbVars, aabb3Vars>>

(***************************************************************************)
(* Specifications, one per family of operations.                           *)
(***************************************************************************)
NextMat == DoRow \/ DoColumn \/ DoSetRow \/ DoSetColumn

SpecMat == InitMat /\ [][NextMat]_vars

SpecVecMat == InitVecMat /\ [][DoVecMat]_vars

NextCross == DoCross \/ DoTriple

SpecCross == InitCross /\ [][NextCross]_vars

NextComplex ==
    \/ DoComplexAdd
    \/ DoComplexSub
    \/ DoComplexMul
    \/ DoComplexMulF
    \/ DoComplexDivF

SpecComplex == InitComplex /\ [][NextComplex]_vars

NextShape == DoCorners \/ DoVolume

SpecShape == InitShape /\ [][NextShape]_vars

NextLerp == DoLerp2 \/ DoLerp3 \/ DoLerp4 \/ DoCenter

SpecLerp == InitLerp /\ [][NextLerp]_vars

NextInvert == DoInvert \/ DoInverted \/ DoInvert3 \/ DoInverted3

SpecInvert == InitInvert /\ [][NextInvert]_vars

SpecCombine == InitCombine /\ [][DoCombine]_vars

SpecProduct == InitProduct /\ [][DoProduct]_vars

NextRotate == DoRotate \/ DoRoundTrip

SpecRotate == InitRotate /\ [][NextRotate]_vars

SpecReciprocal == InitReciprocal /\ [][DoReciprocal]_vars

SpecAxis == InitAxis /\ [][DoAxisCompose]_vars

SpecScale == InitScale /\ [][DoScaledRotate]_vars

NextNorm == DoNormProduct \/ DoStepProduct \/ DoStepCombine \/ DoStepConjugate

SpecNorm == InitNorm /\ [][NextNorm]_vars

NextAabb == DoIsRight \/ DoIsInside

SpecAabb == InitAabb /\ [][NextAabb]_vars

NextAabb3 == DoIsRight3 \/ DoIsInside3

SpecAabb3 == InitAabb3 /\ [][NextAabb3]_vars

(***************************************************************************)
(* Properties of the quaternion operations.                                *)
(***************************************************************************)
IsUnit(q) == FEq(SqrtNorm(q), FOne)

IsIntegerQuat(q) == q.v.x[2] = 1 /\ q.v.y[2] = 1 /\ q.v.z[2] = 1 /\ q.w[2] = 1

\* C1: a.combine(b) is b.product(a), and for nonzero a and b rotating v by
\* a.combine(b) is rotating v by a and then rotating the result by b.
C1_CombineAppliesSelfFirst ==
    pc = "combine" =>
        /\ qr = Product(qb, qa)
        /\ (qa # QuatZero /\ qb # QuatZero => vr = Rotate(qb, Rotate(qa, va)))

\* a call with two nonzero quaternions that do not commute, one of them not
\* of unit norm, and a vector for which the order of the rotations matters
C1_Witness ==
    /\ pc = "combine"
    /\ qa # QuatZero /\ qb # QuatZero
    /\ ~IsUnit(qa)
    /\ Product(qa, qb) # Product(qb, qa)
    /\ vr = Rotate(qb, Rotate(qa, va))
    /\ vr # Rotate(qa, Rotate(qb, va))

\* the components of a, b as integers (the arguments of product are integer)
QX(q) == q.v.x[1]

QY(q) == q.v.y[1]

QZ(q) == q.v.z[1]

QW(q) == q.w[1]

QuatI == IntQuat(<<1, 0, 0, 0>>)

QuatJ == IntQuat(<<0, 1, 0, 0>>)

QuatK == IntQuat(<<0, 0, 1, 0>>)

\* C2: a.product(b) has the components of the Hamilton product, computed
\* here in integer arithmetic, and i * j = k while j * i = -k.
C2_ProductIsHamilton ==
    pc = "product" =>
        /\ qr = IntQuat(<<
             QW(qa) * QX(qb) + QX(qa) * QW(qb) + QY(qa) * QZ(qb) - QZ(qa) * QY(qb),
             QW(qa) * QY(qb) - QX(qa) * QZ(qb) + QY(qa) * QW(qb) + QZ(qa) * QX(qb),
             QW(qa) * QZ(qb) + QX(qa) * QY(qb) - QY(qa) * QX(qb) + QZ(qa) * QW(qb),
             QW(qa) * QW(qb) - QX(qa) * QX(qb) - QY(qa) * QY(qb) - QZ(qa) * QZ(qb)>>)
        /\ (qa = QuatI /\ qb = QuatJ => qr = QuatK)
        /\ (qa = QuatJ /\ qb = QuatI => qr = QuatMul(QuatK, FromInt(-1)))

\* the product i * j, which is k and differs from j * i
C2_Witness ==
    /\ pc = "product"
    /\ qa = QuatI /\ qb = QuatJ
    /\ qr = QuatK
    /\ qr # Product(qb, qa)

\* C3: rotating v by a unit quaternion preserves the squared magnitude of v.
C3_RotatePreservesMagnitude ==
    pc = "rotate" /\ IsUnit(qa) =>
        FEq(Vec3SqrtMagnitude(vr), Vec3SqrtMagnitude(va))

\* a rotation by a unit quaternion with fractional components that moves v
C3_Witness ==
    /\ pc = "rotate"
    /\ IsUnit(qa) /\ ~IsIntegerQuat(qa)
    /\ va # Vec3Zero
    /\ vr # va
    /\ Vec3SqrtMagnitude(vr) = Vec3SqrtMagnitude(va)

\* C4: for a unit quaternion q, q.rotate(q.conjugate().rotate(v)) is v.
C4_ConjugateRoundTrip ==
    pc = "roundtrip" /\ IsUnit(qa) =>
        /\ FEq(vr.x, va.x)
        /\ FEq(vr.y, va.y)
        /\ FEq(vr.z, va.z)

\* a round trip whose first rotation, by the conjugate, moves v
C4_Witness ==
    /\ pc = "roundtrip"
    /\ IsUnit(qa) /\ ~IsIntegerQuat(qa)
    /\ qr = Conjugate(qa)
    /\ Rotate(qr, va) # va
    /\ vr = va

IsDegenerate(x) == ~IsFinite(x)

\* C5: for q other than the zero quaternion the squared norm is not zero,
\* reciprocal() is conjugate() / sqrt_norm() and is a two-sided inverse; for
\* the zero quaternion the squared norm is zero and reciprocal() returns a
\* value whose components are all NaN or infinite.
C5_ReciprocalInverse ==
    pc = "reciprocal" =>
        IF qa # QuatZero
        THEN /\ ~FEq(SqrtNorm(qa), FZero)
             /\ qr = QuatDiv(Conjugate(qa), SqrtNorm(qa))
             /\ Product(qa, qr) = QuatIdentity
             /\ Product(qr, qa) = QuatIdentity
        ELSE /\ FEq(SqrtNorm(qa), FZero)
             /\ IsDegenerate(qr.v.x) /\ IsDegenerate(qr.v.y)
             /\ IsDegenerate(qr.v.z) /\ IsDegenerate(qr.w)

\* the reciprocal of the zero quaternion: every component is NaN
C5_Witness ==
    /\ pc = "reciprocal"
    /\ qa = QuatZero
    /\ qr = QuatFromParts(NaN, NaN, NaN, NaN)

\* the reciprocal of a quaternion that is neither zero nor of unit norm
C5_WitnessInverse ==
    /\ pc = "reciprocal"
    /\ qa # QuatZero /\ ~IsUnit(qa)
    /\ Product(qa, qr) = QuatIdentity

\* C6: composing two rotations about the same axis, by t1 and by t2, rotates
\* every vector as the rotation about that axis by t1 + t2 does, whether or
\* not the axis has unit length.
C6_SameAxisAnglesAdd ==
    pc = "axiscompose" =>
        vr = Rotate(NewAxisRotation(qa.v, AngAdd(ta, tb)), va)

\* two proper rotations about an axis that is not of unit length nor parallel
\* to a coordinate axis, composed and applied to a vector they move
C6_Witness ==
    /\ pc = "axiscompose"
    /\ Vec3SqrtMagnitude(qa.v) # FOne
    /\ qa.v.x # FZero /\ qa.v.y # FZero
    /\ ta # NoAngle /\ tb # NoAngle
    /\ ta[2] # 0
    /\ vr # va
    /\ vr # Rotate(NewAxisRotation(qa.v, ta), va)

(***************************************************************************)
(* Properties of the bounding boxes.                                       *)
(***************************************************************************)
Axes0(n) == 0..(n - 1)

\* C7: the generic is_right() is true exactly if min.get(i) <= max.get(i) on
\* every axis i in 0..SIZE, whatever the components outside 0..SIZE are.
C7_IsRightIffOrdered ==
    pc = "is_right" =>
        (bres <=> \A i \in Axes0(bsize) : FLe(Get(bmin, i), Get(bmax, i)))

\* C8: the generic is_inside(p) is true exactly if
\* min.get(i) <= p.get(i) <= max.get(i) on every axis i in 0..SIZE, and so it
\* is false for every p when min.get(i) > max.get(i) on some axis.
C8_IsInsideIffBetween ==
    pc = "is_inside" =>
        /\ bres <=> \A i \in Axes0(bsize) :
                        FLe(Get(bmin, i), Get(bpt, i)) /\ FLe(Get(bpt, i), Get(bmax, i))
        /\ (\E i \in Axes0(bsize) : FGt(Get(bmin, i), Get(bmax, i))) => ~bres

\* a point on the boundary of a box of SIZE 2 that is not flat: inside
C8_Witness ==
    /\ pc = "is_inside"
    /\ bsize = 2
    /\ Get(bpt, 0) = Get(bmin, 0)
    /\ Get(bpt, 1) = Get(bmax, 1)
    /\ Get(bmin, 1) # Get(bmax, 1)
    /\ bres

\* the point is within the box on each of the three axes
InsidePerAxis(min, max, p) ==
    /\ FLe(min.x, p.x) /\ FLe(p.x, max.x)
    /\ FLe(min.y, p.y) /\ FLe(p.y, max.y)
    /\ FLe(min.z, p.z) /\ FLe(p.z, max.z)

\* C9: Aabb3::is_inside(p) is true exactly if min <= p <= max on each of the
\* three axes, as the generic Aabb::is_inside on the same box and point, and
\* is_outside(p) is its negation.
C9_IsInside3PerAxis ==
    pc = "is_inside3" =>
        /\ ares <=> InsidePerAxis(amin, amax, apt)
        /\ ares <=> IsInside(Vec3AsVector(amin), Vec3AsVector(amax),
                             Vec3AsVector(apt), Vec3Size)
        /\ aout <=> ~ares

\* C10: Aabb3::is_right() is true exactly if every component of min is <= the
\* corresponding component of max, as the generic Aabb::is_right on the same
\* box.
C10_IsRight3PerAxis ==
    pc = "is_right3" =>
        /\ ares <=> (FLe(amin.x, amax.x) /\ FLe(amin.y, amax.y) /\ FLe(amin.z, amax.z))
        /\ ares <=> IsRight(Vec3AsVector(amin), Vec3AsVector(amax), Vec3Size)

\* the box with min and max exchanged
Swapped(b) == [min |-> b.max, max |-> b.min]

\* the box that n calls of invert() leave of the box constructed as opa
AfterInverts(n) == IF n % 2 = 0 THEN opa ELSE Swapped(opa)

\* C11: after n calls of invert() the box is the original one if n is even
\* and the original one with min and max exchanged if n is odd; inverted()
\* returns the box that one more invert() would leave, and inverted() of
\* that copy is the box itself.  Boxes are compared field by field.
C11_InvertIsInvolution ==
    /\ pc \in {"box", "invert", "inverted"} =>
           AabbNew(bmin, bmax) = AfterInverts(ninv)
    /\ pc = "inverted" =>
           out = AfterInverts(ninv + 1) /\ out2 = AabbNew(bmin, bmax)
    /\ pc \in {"box3", "invert3", "inverted3"} =>
           Aabb3New(amin, amax) = AfterInverts(ninv)
    /\ pc = "inverted3" =>
           out = AfterInverts(ninv + 1) /\ out2 = Aabb3New(amin, amax)

\* a generic box of SIZE 2 with min # max, inverted in place three times and
\* then copied by inverted(): the copy is the original box again
C11_Witness ==
    /\ pc = "inverted"
    /\ bsize = 2 /\ ninv = 3
    /\ opa.min # opa.max
    /\ AabbNew(bmin, bmax) = Swapped(opa)
    /\ out = opa

FLt(a, b) == FPartialCmp(a, b) = "Less"

ProperOnSomeAxis(min, max, n) == \E i \in Axes0(n) : FLt(Get(min, i), Get(max, i))

C13_LerpEndpoints ==
    pc \in {"lerp2", "lerp3", "lerp4"} =>
        /\ opt = FZero => out = opb
        /\ opt = FOne => out = opa

\* a.lerp(b, 0) on Vec4 with a # b and a component that is not an integer
C13_Witness ==
    /\ pc = "lerp4"
    /\ opt = FZero
    /\ opa # opb
    /\ opa.x[2] = 2 /\ opb.w # FZero
    /\ out = opb

\* (a + b) / 2 of two finite scalars, in integer arithmetic
Mid(a, b) == Mk(a[1] * b[2] + b[1] * a[2], 2 * a[2] * b[2])

\* the componentwise midpoint of two vectors of the same dimension
Midpoint(a, b) == [c \in DOMAIN a |-> Mid(a[c], b[c])]

\* C14: a.lerp(b, 1/2) is the componentwise midpoint of a and b and is
\* b.lerp(a, 1/2); center() is the componentwise midpoint of min and max, is
\* (3/2, 3/2, 3/2) for min = (1, 1, 1), max = (2, 2, 2), and is the center of
\* the inverted box.
C14_LerpHalfIsMidpoint ==
    /\ pc \in {"lerp2", "lerp3", "lerp4"} /\ opt = Mk(1, 2) =>
           out = Midpoint(opa, opb) /\ out = out2
    /\ pc = "center" =>
           /\ out = Midpoint(amin, amax)
           /\ out2 = out
           /\ Aabb3New(amin, amax) = DocBox =>
                  out = Vec3New(Mk(3, 2), Mk(3, 2), Mk(3, 2))

\* the center of the box of the documentation test
C14_Witness ==
    /\ pc = "center"
    /\ Aabb3New(amin, amax) = DocBox
    /\ out = Vec3New(Mk(3, 2), Mk(3, 2), Mk(3, 2))
    /\ out2 = out

\* a.lerp(b, 1/2) on Vec3 with a # b and a midpoint in quarters
C14_WitnessLerp ==
    /\ pc = "lerp3"
    /\ opt = Mk(1, 2)
    /\ opa # opb
    /\ out.x[2] = 4
    /\ out = out2

(***************************************************************************)
(* Properties of the shape of the fixed 3D box.                            *)
(***************************************************************************)
\* bit i of k is set
Bit(k, i) == (k \div (2 ^ i)) % 2 = 1

\* the vertex numbered k in binary counting, x being the lowest bit
Vertex(min, max, k) ==
    Vec3New(IF Bit(k, 0) THEN max.x ELSE min.x,
            IF Bit(k, 1) THEN max.y ELSE min.y,
            IF Bit(k, 2) THEN max.z ELSE min.z)

\* C15: corners() returns 8 points, and for k in 0..7 point k has x = max.x
\* if bit 0 of k is set and min.x if not, y likewise by bit 1 and z by bit 2;
\* for min = (1, 1, 1), max = (2, 2, 2) they are the 8 distinct points with
\* every coordinate 1 or 2.
C15_CornersInBinaryOrder ==
    pc = "corners" =>
        /\ Len(out) = 8
        /\ \A k \in 0..7 : out[k + 1] = Vertex(amin, amax, k)
        /\ Aabb3New(amin, amax) = DocBox =>
               /\ {out[k] : k \in 1..8} =
                      {IntVec3(t) : t \in {1, 2} \X {1, 2} \X {1, 2}}
               /\ Cardinality({out[k] : k \in 1..8}) = 8

\* the corners of a box with fractional coordinates that is not flat on any
\* axis: the second corner differs from min in x only, the third in y only
C15_Witness ==
    /\ pc = "corners"
    /\ amin.x # amax.x /\ amin.y # amax.y /\ amin.z # amax.z
    /\ amin.x[2] = 2
    /\ out[2] = Vec3New(amax.x, amin.y, amin.z)
    /\ out[3] = Vec3New(amin.x, amax.y, amin.z)
    /\ out[8] = amax

\* twice a scalar that is a multiple of 1/2, as an integer
Twice(a) == a[1] * (2 \div a[2])

\* the product of the three extents max - min, in integer arithmetic
ExtentProduct(min, max) ==
    Mk((Twice(max.x) - Twice(min.x)) * (Twice(max.y) - Twice(min.y))
           * (Twice(max.z) - Twice(min.z)), 8)

\* C16: volume() is the product of the extents on the three axes; it is 1
\* for min = (1, 1, 1), max = (2, 2, 2) and 0 for a box that is flat on some
\* axis, and the volume of the inverted box is the negated volume.
C16_VolumeIsExtentProduct ==
    pc = "volume" =>
        /\ out = ExtentProduct(amin, amax)
        /\ Aabb3New(amin, amax) = DocBox => out = FOne
        /\ amin.x = amax.x \/ amin.y = amax.y \/ amin.z = amax.z => out = FZero
        /\ out2 = FNeg(out)

\* the volume of a box that is inverted on one axis: negative, and positive
\* once the box is inverted
C16_Witness ==
    /\ pc = "volume"
    /\ FLt(amax.x, amin.x) /\ FLt(amin.y, amax.y) /\ FLt(amin.z, amax.z)
    /\ FLt(out, FZero)
    /\ FLt(FZero, out2)

(***************************************************************************)
(* Properties of the complex numbers.                                      *)
(***************************************************************************)
\* the real and imaginary parts as integers (the operands are integer)
CRe(c) == c.real[1]

CIm(c) == c.imag[1]

\* a * b is (a.real * b.real - a.imag * b.imag, a.real * b.imag + a.imag * b.real)
MulIsComplexProduct ==
    pc = "cmul" =>
        out = IntComplex(CRe(opa) * CRe(opb) - CIm(opa) * CIm(opb),
                         CRe(opa) * CIm(opb) + CIm(opa) * CRe(opb))

\* C17: a * b is the complex product, and every operator that works in place
\* (+=, -=, *= by a complex number, *= and /= by a scalar) leaves in the
\* receiver the value that the operator by value returns.
C17_InPlaceMatchesByValue ==
    /\ MulIsComplexProduct
    /\ pc \in {"cadd", "csub", "cmul", "cmulf", "cdivf"} => out2 = out

(***************************************************************************)
(* Properties of the cross and triple products.                            *)
(***************************************************************************)
\* the components of an integer vector as integers
VX(v) == v.x[1]

VY(v) == v.y[1]

VZ(v) == v.z[1]

\* the cross product of two integer vectors, in integer arithmetic
IntCross(a, b) ==
    <<VY(a) * VZ(b) - VZ(a) * VY(b),
      VZ(a) * VX(b) - VX(a) * VZ(b),
      VX(a) * VY(b) - VY(a) * VX(b)>>

UnitX == IntVec3(<<1, 0, 0>>)

UnitY == IntVec3(<<0, 1, 0>>)

UnitZ == IntVec3(<<0, 0, 1>>)

\* C18: a.cross(b) is (a.y*b.z - a.z*b.y, a.z*b.x - a.x*b.z, a.x*b.y - a.y*b.x),
\* so x cross y is z, y cross z is x and z cross x is y; a.triple(b, c) is
\* the dot product of a with the cross product of b and c.
C18_CrossIsRightHanded ==
    /\ pc = "cross" =>
           /\ out = IntVec3(IntCross(opa, opb))
           /\ opa = UnitX /\ opb = UnitY => out = UnitZ
           /\ opa = UnitY /\ opb = UnitZ => out = UnitX
           /\ opa = UnitZ /\ opb = UnitX => out = UnitY
    /\ pc = "triple" =>
           out = FromInt(VX(opa) * IntCross(opb, opc)[1]
                             + VY(opa) * IntCross(opb, opc)[2]
                             + VZ(opa) * IntCross(opb, opc)[3])

\* the cross product of the first two basis vectors
C18_Witness ==
    /\ pc = "cross"
    /\ opa = UnitX /\ opb = UnitY
    /\ out = UnitZ

\* a triple product that is not zero: the three vectors are independent
C18_WitnessTriple ==
    /\ pc = "triple"
    /\ out # FZero
    /\ opa # UnitX /\ opb # UnitY

(***************************************************************************)
(* Properties of the 3x4 matrix.                                           *)
(***************************************************************************)
\* the dot product of two integer Vec4, in integer arithmetic
IntDot4(a, b) ==
    a.x[1] * b.x[1] + a.y[1] * b.y[1] + a.z[1] * b.z[1] + a.w[1] * b.w[1]

\* C19: v * m is the Vec3 of the dot products of v with the rows r0, r1, r2
\* of m, and for the identity matrix it is (v.x, v.y, v.z) whatever v.w is.
C19_VecMatIsRowDots ==
    pc = "vecmat" =>
        /\ out = IntVec3(<<IntDot4(opa, mat.r0), IntDot4(opa, mat.r1),
                           IntDot4(opa, mat.r2)>>)
        /\ mat = Mat3x4Identity => out = Vec3New(opa.x, opa.y, opa.z)

\* a product in which the w components of v and of a row take part
C19_Witness ==
    /\ pc = "vecmat"
    /\ opa.w # FZero /\ opa.y = FZero
    /\ mat.r1.w # FZero /\ mat.r0.w = FZero
    /\ out.y = FMul(opa.w, mat.r1.w)
    /\ out.y # FZero /\ out.x = FZero

\* a product with the identity matrix of a vector whose w is not zero
C19_WitnessIdentity ==
    /\ pc = "vecmat"
    /\ mat = Mat3x4Identity
    /\ opa.w # FZero /\ opa.y # FZero
    /\ out = Vec3New(opa.x, opa.y, opa.z)

\* C20: row and set_row panic exactly for an index above 2, column and
\* set_column exactly for an index above 3; after every sequence of calls,
\* the last of which may have panicked, component J of row I and component I
\* of column J are the value last written to cell (I, J), so a setter that
\* panics changes no cell and a setter changes no cell outside its row or
\* column; row and column return these values.
C20_AccessorsPanicOutOfRange ==
    pc \in MatPcs =>
        /\ pc \in {"row", "set_row"} => (panicked <=> opt > 2)
        /\ pc \in {"column", "set_column"} => (panicked <=> opt > 3)
        /\ \A c \in Cells :
               /\ ~Mat3x4Row(mat, c[1]).panic
               /\ ~Mat3x4Column(mat, c[2]).panic
               /\ Comp4(Mat3x4Row(mat, c[1]).value, c[2]) = written[c]
               /\ Comp3(Mat3x4Column(mat, c[2]).value, c[1]) = written[c]
        /\ pc = "row" /\ ~panicked =>
               \A J \in 0..3 : Comp4(out, J) = written[<<opt, J>>]
        /\ pc = "column" /\ ~panicked =>
               \A I \in 0..2 : Comp3(out, I) = written[<<I, opt>>]

\* a set_column that panics after a row and a column were set: the cell
\* where the two cross holds the value of the later call
C20_Witness ==
    /\ pc = "set_column"
    /\ panicked /\ opt = 4
    /\ nset = 3
    /\ written[<<1, 2>>] = Comp3(FreshColumn(1), 1)
    /\ written[<<1, 0>>] = Comp4(FreshRow(0), 0)
    /\ mat.r1.z = written[<<1, 2>>]
    /\ mat.r1.x = written[<<1, 0>>]

(***************************************************************************)
(* Properties of the norm of a quaternion.                                 *)
(***************************************************************************)
\* C21: rotate does not depend on the norm of the acting quaternion: for a
\* nonzero quaternion q, a nonzero scalar k and a vector v,
\* (q * k).rotate(v) is q.rotate(v), and the rotated vector has the squared
\* magnitude of v, so the result is never scaled.
C21_RotateIgnoresNorm ==
    pc = "scaled_rotate" /\ qa # QuatZero /\ opt # FZero =>
        /\ qr = QuatMul(qa, opt)
        /\ vr = out
        /\ Vec3SqrtMagnitude(out) = Vec3SqrtMagnitude(va)
        /\ Vec3SqrtMagnitude(vr) = Vec3SqrtMagnitude(va)

\* a quaternion that is not unit, scaled by a fraction to another that is
\* not unit either, turns a vector into a different one of the same length
C21_Witness ==
    /\ pc = "scaled_rotate"
    /\ SqrtNorm(qa) = FromInt(2)
    /\ opt = Mk(-1, 2)
    /\ SqrtNorm(qr) = Mk(1, 2)
    /\ va # Vec3Zero
    /\ out # va
    /\ vr = out
    /\ Vec3SqrtMagnitude(vr) = Vec3SqrtMagnitude(va)

\* C22: the squared norm is multiplicative over the Hamilton product:
\* a.product(b).sqrt_norm() is a.sqrt_norm() * b.sqrt_norm(); the identity
\* is a two-sided unit of the product; and a quaternion obtained from a unit
\* quaternion by product, combine and conjugate steps with unit quaternions
\* is a unit quaternion.
C22_NormIsMultiplicative ==
    /\ pc = "norm_product" =>
           /\ out = SqrtNorm(qr)
           /\ out = FMul(SqrtNorm(qa), SqrtNorm(qb))
           /\ out2 = <<qa, qa>>
    /\ pc \in StepPcs =>
           /\ IsUnit(qa)
           /\ pc \in {"step_product", "step_combine"} => IsUnit(qb)

\* two steps with units of different denominators: the quaternion reached
\* has components in sixths, and is a unit quaternion
C22_Witness ==
    /\ pc = "step_combine"
    /\ nsteps = 2
    /\ qb = Normalize(IntQuat(<<2, 2, 1, 0>>))
    /\ qa.w[2] = 6
    /\ qa.v.x[2] = 6
    /\ IsUnit(qa)

\* a product of two quaternions of squared norm 2 that do not commute
C22_WitnessProduct ==
    /\ pc = "norm_product"
    /\ SqrtNorm(qa) = FromInt(2)
    /\ SqrtNorm(qb) = FromInt(2)
    /\ out = FromInt(4)
    /\ Product(qa, qb) # Product(qb, qa)
    /\ out2 = <<qa, qa>>

====
